---- MODULE Spec2Model ----
(***************************************************************************)
(* A model of bemmed (src/src/index.ts): the BEM class-name composer.      *)
(*                                                                         *)
(* JavaScript values are tagged records.  Arrays and condition maps carry  *)
(* an id that stands for their reference identity (two values with the     *)
(* same id are the same object); ClassName instances live in `heap` and   *)
(* are referred to by their index, which is their identity.                *)
(***************************************************************************)
EXTENDS Integers, Sequences, FiniteSets, TLC

VARIABLES
    ctors,   \* the constructors made by setup(): a sequence of [es, ms]
    heap,    \* the objects alive: ClassName instances [cls, b, e, m] and,
             \* where a list is the receiver of a call, lists [items]
    call     \* the last call made: [op, recv, name, args, ret]

vars == <<ctors, heap, call>>

----------------------------------------------------------------------------
(* Bounds *)

MaxArgs == 2     \* longest argument list of a call
MaxCtors == 2    \* constructors alive, the default one included
MaxSetups == 3   \* constructors alive where the calls of setup are followed
MaxRoots == 2    \* instances constructed with new where several live together
MaxItems == 3    \* longest list given to BEMList.from or to BEMList.concat

----------------------------------------------------------------------------
(* JavaScript values *)

Null == [t |-> "null"]
Undef == [t |-> "undefined"]
NaN == [t |-> "nan"]
Bool(b) == [t |-> "bool", b |-> b]
Str(s) == [t |-> "str", s |-> s]
Num(n) == [t |-> "num", n |-> n]
Arr(id, items) == [t |-> "arr", id |-> id, items |-> items]
Map(id, entries) == [t |-> "map", id |-> id, entries |-> entries]
Ref(i) == [t |-> "bem", id |-> i]
List(items) == [t |-> "list", items |-> items]
ListRef(i) == [t |-> "listref", id |-> i]

\* !!value
Truthy(v) ==
    CASE v.t = "null" -> FALSE
      [] v.t = "undefined" -> FALSE
      [] v.t = "nan" -> FALSE
      [] v.t = "bool" -> v.b
      [] v.t = "str" -> v.s # ""
      [] v.t = "num" -> v.n # 0
      [] OTHER -> TRUE

\* a === b: NaN equals nothing, objects are equal when they are the same object
StrictEq(a, b) == a.t # "nan" /\ a = b

DEFAULT_ELEMENT_SEPARATOR == "__"
DEFAULT_MODIFIER_SEPARATOR == "--"

isValidBEMPart_truthy(value) == Truthy(value)

isValidBEMPart(value) == StrictEq(value, Num(0)) \/ Truthy(value)

\* array.indexOf(value): the first index holding a value === value, 0 if none
IndexOf(array, value) ==
    IF \E i \in 1..Len(array) : StrictEq(array[i], value)
    THEN CHOOSE i \in 1..Len(array) :
            /\ StrictEq(array[i], value)
            /\ \A j \in 1..(i - 1) : ~StrictEq(array[j], value)
    ELSE 0

RECURSIVE Filter(_, _)
\* array.filter over the indices in keep
Filter(array, keep) ==
    IF array = <<>> THEN <<>>
    ELSE LET n == Len(array)
             front == Filter(SubSeq(array, 1, n - 1), keep)
         IN IF n \in keep THEN Append(front, array[n]) ELSE front

\* the last of equal values kept instead of the first
dedupe_last(array) ==
    Filter(array, {i \in 1..Len(array) :
                     /\ array[i].t # "nan"
                     /\ \A j \in (i + 1)..Len(array) : ~StrictEq(array[j], array[i])})

\* nothing removed
dedupe_none(array) == array

dedupe(array) ==
    Filter(array, {i \in 1..Len(array) : IndexOf(array, array[i]) = i})

RECURSIVE Join(_, _)
\* strs.join(sep) for a sequence of strings
Join(strs, sep) ==
    IF strs = <<>> THEN ""
    ELSE IF Len(strs) = 1 THEN strs[1]
    ELSE strs[1] \o sep \o Join(Tail(strs), sep)

conditionHolds_valid(condition) == isValidBEMPart(condition)

\* `condition ? ... : ...` on the value of a condition map's entry
conditionHolds(condition) == Truthy(condition)

\* the number handed on as it is
inputToString_raw(input) == input

\* input.toString() of a string or a number
inputToString(input) ==
    IF input.t = "num" THEN Str(ToString(input.n))
    ELSE IF input.t = "nan" THEN Str("NaN")
    ELSE input

\* what a call yields that throws a TypeError
TypeError == [t |-> "error", message |-> "TypeError"]

\* null is the only input taken as none
isNoInput_null(input) == input = Null

\* input !== 0 && !input
isNoInput(input) == ~StrictEq(input, Num(0)) /\ ~Truthy(input)

\* Object.entries(input) throws a TypeError: for null and undefined
Object_entries_throws(input) == input.t \in {"null", "undefined"}

\* Object.entries(input) where it does not throw: the entries of a condition
\* map, none for a boolean
Object_entries(input) ==
    IF input.t = "map" THEN input.entries ELSE <<>>

\* mods.concat(subMods), null included
concatSubMods_null(mods, subMods) ==
    IF subMods.t = "arr" THEN mods \o subMods.items ELSE Append(mods, subMods)

\* subMods !== null ? mods.concat(subMods) : mods
concatSubMods(mods, subMods) ==
    IF subMods = Null THEN mods
    ELSE IF subMods.t = "arr" THEN mods \o subMods.items
    ELSE Append(mods, subMods)

RECURSIVE createModifiers(_)
\* null, one modifier string, or an array of modifier strings
createModifiers(input) ==
    IF isNoInput(input) THEN Null
    ELSE IF input.t \in {"str", "num", "nan"} THEN inputToString(input)
    ELSE LET RECURSIVE reduceArr(_, _)
             \* a TypeError thrown for an item ends the reduction; it is
             \* carried as the only item
             reduceArr(items, mods) ==
                 IF items = <<>> THEN mods
                 ELSE LET subMods == createModifiers(Head(items))
                      IN IF subMods = TypeError THEN <<TypeError>>
                         ELSE reduceArr(Tail(items), concatSubMods(mods, subMods))
             RECURSIVE reduceEntries(_, _)
             reduceEntries(entries, mods) ==
                 IF entries = <<>> THEN mods
                 ELSE reduceEntries(Tail(entries),
                        IF conditionHolds(Head(entries)[2])
                        THEN Append(mods, Str(Head(entries)[1]))
                        ELSE mods)
             mods == IF input.t = "arr" THEN reduceArr(input.items, <<>>)
                     ELSE IF Object_entries_throws(input) THEN <<TypeError>>
                     ELSE reduceEntries(Object_entries(input), <<>>)
         IN IF mods = <<TypeError>> THEN TypeError
            ELSE IF Len(mods) = 0 THEN Null
            ELSE IF Len(mods) = 1 THEN mods[1]
            ELSE Arr(0, mods)

----------------------------------------------------------------------------
(* Rendering *)

RECURSIVE ToStr(_, _, _)
RECURSIVE toString(_, _, _)
RECURSIVE BEMList_toString(_, _, _)

\* `${value}`: the string a value is coerced to
ToStr(value, h, cs) ==
    CASE value.t = "str" -> value.s
      [] value.t = "num" -> ToString(value.n)
      [] value.t = "bool" -> IF value.b THEN "true" ELSE "false"
      [] value.t = "null" -> "null"
      [] value.t = "undefined" -> "undefined"
      [] value.t = "nan" -> "NaN"
      [] value.t = "arr" ->
            Join([i \in 1..Len(value.items) |->
                    IF value.items[i].t \in {"null", "undefined"} THEN ""
                    ELSE ToStr(value.items[i], h, cs)], ",")
      [] value.t = "map" -> "[object Object]"
      [] value.t = "bem" -> toString(h[value.id], h, cs)
      [] value.t = "list" -> BEMList_toString(value.items, h, cs)

createBEMPart(value, prefix, h, cs) ==
    IF isValidBEMPart(value) THEN prefix \o ToStr(value, h, cs) ELSE ""

\* Bemmed.toString of the instance this
toString(this, h, cs) ==
    ToStr(this.b, h, cs) \o createBEMPart(this.e, cs[this.cls].es, h, cs)
                         \o createBEMPart(this.m, cs[this.cls].ms, h, cs)

\* the items joined as Array.prototype.join does, none left out
BEMList_toString_join(items, h, cs) ==
    Join([i \in 1..Len(items) |->
            IF items[i].t \in {"null", "undefined"} THEN ""
            ELSE ToStr(items[i], h, cs)], " ")

\* BEMList.toString of a list with the given items
BEMList_toString(items, h, cs) ==
    LET valid == Filter(items, {i \in 1..Len(items) : isValidBEMPart(items[i])})
    IN Join([i \in 1..Len(valid) |-> ToStr(valid[i], h, cs)], " ")

----------------------------------------------------------------------------
(* The ClassName methods.  Each takes the heap h and the index this of the *)
(* receiver and yields the heap after the call and the value returned.     *)

\* new this.cls(b, e, m): a parameter left undefined takes its default null
Construct(cls, b, e, m) ==
    [cls |-> cls, b |-> b,
     e |-> IF e = Undef THEN Null ELSE e,
     m |-> IF m = Undef THEN Null ELSE m]

RECURSIVE Array_concat(_, _)
\* Array.prototype.concat: an argument that is an array is appended item by
\* item, any other argument as one item
Array_concat(array, items) ==
    IF items = <<>> THEN array
    ELSE Array_concat(array \o (IF Head(items).t \in {"arr", "list"}
                                THEN Head(items).items
                                ELSE <<Head(items)>>),
                      Tail(items))

\* the duplicates removed from the receiver's items and the incoming ones together
BEMList_concat_all(h, this, items) ==
    [h |-> Append(h, [items |-> dedupe(Array_concat(h[this].items, items))]),
     ret |-> ListRef(Len(h) + 1)]

\* BEMList.concat of the list this: a new list
BEMList_concat(h, this, items) ==
    [h |-> Append(h, [items |-> Array_concat(h[this].items, dedupe(items))]),
     ret |-> ListRef(Len(h) + 1)]

\* a copy of the receiver put first
concat_copy(h, this, items) ==
    [h |-> Append(h, h[this]), ret |-> List(<<Ref(Len(h) + 1)>> \o dedupe(items))]

concat(h, this, items) ==
    [h |-> h, ret |-> List(<<Ref(this)>> \o dedupe(items))]

\* dedupe(mods).map((m) => new this.cls(this.b, this.e, m)) as a BEMList
ModifierList(h, this, d) ==
    [h |-> h \o [i \in 1..Len(d) |->
                   Construct(h[this].cls, h[this].b, h[this].e, d[i])],
     ret |-> List([i \in 1..Len(d) |-> Ref(Len(h) + i)])]

\* a copy of the receiver where no modifier is given
modifier_copy(h, this, modifiers) ==
    CHOOSE r \in
        {IF mods = Null
         THEN [h |-> Append(h, Construct(h[this].cls, h[this].b, h[this].e, h[this].m)),
               ret |-> Ref(Len(h) + 1)]
         ELSE IF mods.t = "arr"
         THEN CHOOSE l \in {ModifierList(h, this, d) : d \in {dedupe(mods.items)}} : TRUE
         ELSE [h |-> Append(h, Construct(h[this].cls, h[this].b, h[this].e, mods)),
               ret |-> Ref(Len(h) + 1)]
           : mods \in {createModifiers(Arr(0, modifiers))}} : TRUE

\* (A value used more than once is bound by CHOOSE over a singleton, which
\* evaluates it once.)
modifier(h, this, modifiers) ==
    CHOOSE r \in
        {IF mods = TypeError THEN [h |-> h, ret |-> TypeError]
         ELSE IF mods = Null \/ (mods.t = "arr" /\ Len(mods.items) = 0)
         THEN [h |-> h, ret |-> Ref(this)]
         ELSE IF mods.t = "arr"
         THEN CHOOSE l \in {ModifierList(h, this, d) : d \in {dedupe(mods.items)}} : TRUE
         ELSE [h |-> Append(h, Construct(h[this].cls, h[this].b, h[this].e, mods)),
               ret |-> Ref(Len(h) + 1)]
           : mods \in {createModifiers(Arr(0, modifiers))}} : TRUE

RECURSIVE MapModifier(_, _, _, _)
\* modifiers.map((m) => this.modifier(m)), the results collected in rets
\* (a TypeError thrown by a call ends the mapping)
MapModifier(h, this, modifiers, rets) ==
    IF modifiers = <<>> THEN [h |-> h, ret |-> rets]
    ELSE CHOOSE out \in
            {IF r.ret = TypeError THEN [h |-> r.h, ret |-> <<TypeError>>]
             ELSE MapModifier(r.h, this, Tail(modifiers), Append(rets, r.ret))
                : r \in {modifier(h, this, <<Head(modifiers)>>)}} : TRUE

withMod(h, this, modifiers) ==
    CHOOSE out \in
        {IF mapped.ret = <<TypeError>> THEN [h |-> mapped.h, ret |-> TypeError]
         ELSE concat(mapped.h, this,
                Filter(mapped.ret,
                       {i \in 1..Len(mapped.ret) :
                           \/ mapped.ret[i].t = "list"
                           \/ Truthy(mapped.h[mapped.ret[i].id].m)}))
            : mapped \in {MapModifier(h, this, dedupe(modifiers), <<>>)}} : TRUE

\* the element set on the receiver itself
element_inplace(h, this, name, modifiers) ==
    CHOOSE out \in
        {IF Len(modifiers) > 0 THEN withMod(h1, this, modifiers)
         ELSE [h |-> h1, ret |-> Ref(this)]
            : h1 \in {[h EXCEPT ![this].e = name, ![this].m = Null]}} : TRUE

\* the receiver's modifier carried over to the new instance
element_keepmod(h, this, name, modifiers) ==
    CHOOSE out \in
        {IF Len(modifiers) > 0 THEN withMod(h1, Len(h1), modifiers)
         ELSE [h |-> h1, ret |-> Ref(Len(h1))]
            : h1 \in {Append(h, Construct(h[this].cls, h[this].b, name, h[this].m))}} : TRUE

\* the modifiers set with modifier() instead of withMod()
element_modifier(h, this, name, modifiers) ==
    CHOOSE out \in
        {IF Len(modifiers) > 0 THEN modifier(h1, Len(h1), modifiers)
         ELSE [h |-> h1, ret |-> Ref(Len(h1))]
            : h1 \in {Append(h, Construct(h[this].cls, h[this].b, name, Null))}} : TRUE

\* new BEM(this.b, element, null) with the module's default constructor
element_default(h, this, name, modifiers) ==
    CHOOSE out \in
        {IF Len(modifiers) > 0 THEN withMod(h1, Len(h1), modifiers)
         ELSE [h |-> h1, ret |-> Ref(Len(h1))]
            : h1 \in {Append(h, Construct(1, h[this].b, name, Null))}} : TRUE

element(h, this, name, modifiers) ==
    CHOOSE out \in
        {IF Len(modifiers) > 0 THEN withMod(h1, Len(h1), modifiers)
         ELSE [h |-> h1, ret |-> Ref(Len(h1))]
            : h1 \in {Append(h, Construct(h[this].cls, h[this].b, name, Null))}} : TRUE

RECURSIVE MapElement_index(_, _, _, _)
\* the index handed to element as a second argument, as a map function with
\* rest parameters receives it
MapElement_index(h, this, names, rets) ==
    IF names = <<>> THEN [h |-> h, ret |-> rets]
    ELSE CHOOSE out \in
            {MapElement_index(r.h, this, Tail(names), Append(rets, r.ret))
                : r \in {element(h, this, Head(names), <<Num(Len(rets))>>)}} : TRUE

RECURSIVE MapElement(_, _, _, _)
\* elements.map((element) => this.element(element))
MapElement(h, this, names, rets) ==
    IF names = <<>> THEN [h |-> h, ret |-> rets]
    ELSE CHOOSE out \in
            {MapElement(r.h, this, Tail(names), Append(rets, r.ret))
                : r \in {element(h, this, Head(names), <<>>)}} : TRUE

elements(h, this, names) ==
    CHOOSE out \in
        {[h |-> mapped.h, ret |-> List(mapped.ret)]
            : mapped \in {MapElement(h, this, names, <<>>)}} : TRUE

\* a name given twice taken once
withElem_distinct(h, this, names) ==
    CHOOSE out \in
        {concat(els.h, this, els.ret.items)
            : els \in {elements(h, this, dedupe(names))}} : TRUE

withElem(h, this, names) ==
    CHOOSE out \in
        {concat(els.h, this, els.ret.items)
            : els \in {elements(h, this, names)}} : TRUE

\* setup(options): an option left out or undefined takes its default
setup(options) ==
    [es |-> IF options.elementSeparator = Undef THEN DEFAULT_ELEMENT_SEPARATOR
            ELSE options.elementSeparator.s,
     ms |-> IF options.modifierSeparator = Undef THEN DEFAULT_MODIFIER_SEPARATOR
            ELSE options.modifierSeparator.s]

----------------------------------------------------------------------------
(* The propTypes validators.  Each yields undefined or an Error. *)

\* typeof null is 'null'
TypeOf_null(value) ==
    CASE value.t = "str" -> "string"
      [] value.t \in {"num", "nan"} -> "number"
      [] value.t = "bool" -> "boolean"
      [] value.t = "undefined" -> "undefined"
      [] value.t = "null" -> "null"
      [] OTHER -> "object"

\* typeof value
TypeOf(value) ==
    CASE value.t = "str" -> "string"
      [] value.t \in {"num", "nan"} -> "number"
      [] value.t = "bool" -> "boolean"
      [] value.t = "undefined" -> "undefined"
      [] OTHER -> "object"

\* value instanceof BEM, BEM being the module's export: the constructor made
\* by the first call of setup
instanceOfBEM(value, h) == value.t = "bem" /\ h[value.id].cls = 1

\* value instanceof BEMList
instanceOfBEMList(value) == value.t \in {"list", "listref"}

propTypeError(propName, componentName, expected, actual) ==
    [t |-> "error",
     message |-> "Invalid prop '" \o propName \o "' provided to " \o componentName
                    \o ". Expected " \o Join(expected, ", ") \o ". Got " \o actual \o "."]

bemPropType(value, type, propName, componentName, h) ==
    IF type # "object" \/ ~(instanceOfBEM(value, h) \/ instanceOfBEMList(value))
    THEN propTypeError(propName, componentName, <<"an instance of BEM">>, type)
    ELSE Undef

elementPropType(value, type, propName, componentName, h) ==
    IF type \notin {"string", "number"}
    THEN propTypeError(propName, componentName, <<"string", "number">>, type)
    ELSE Undef

modifierPropType(value, type, propName, componentName, h) ==
    IF type \notin {"object", "string", "number"}
    THEN propTypeError(propName, componentName, <<"object", "string", "number">>, type)
    ELSE Undef

classNamePropType(value, type, propName, componentName, h) ==
    IF ~(type \in {"string", "number"} \/ instanceOfBEM(value, h) \/ instanceOfBEMList(value))
    THEN propTypeError(propName, componentName,
                       <<"string", "number", "instance of BEM or an instance of BEMList">>,
                       type)
    ELSE Undef

\* the checker function given to getPropType for the validator of that name
Checker(validator, value, type, propName, componentName, h) ==
    CASE validator = "bem" -> bemPropType(value, type, propName, componentName, h)
      [] validator = "className" -> classNamePropType(value, type, propName, componentName, h)
      [] validator = "element" -> elementPropType(value, type, propName, componentName, h)
      [] validator = "modifier" -> modifierPropType(value, type, propName, componentName, h)

\* every falsy value taken as a missing one
propType_falsy(isRequired, validator, value, propName, componentName, h) ==
    IF ~Truthy(value) /\ ~isRequired THEN Undef
    ELSE Checker(validator, value, TypeOf(value), propName, componentName, h)

\* the function getPropTypeChecker(isRequired, func) returns, applied to
\* props whose property propName holds value (undefined when it is missing)
propType(isRequired, validator, value, propName, componentName, h) ==
    IF TypeOf(value) = "undefined" /\ ~isRequired THEN Undef
    ELSE Checker(validator, value, TypeOf(value), propName, componentName, h)

----------------------------------------------------------------------------
(* Inputs *)

RECURSIVE SeqsUpTo(_, _)
\* the sequences over S of length at most n
SeqsUpTo(S, n) ==
    IF n = 0 THEN {<<>>}
    ELSE LET shorter == SeqsUpTo(S, n - 1)
         IN shorter \cup {Append(q, x) : q \in {r \in shorter : Len(r) = n - 1}, x \in S}

Blocks == {Str("block")}

\* element and modifier parts given to the constructor
Parts == {Null, Str("el"), Num(0)}
AllParts == Parts \cup {Undef, Bool(FALSE), NaN, Str(""), Num(1), Str("m")}

\* element names given to element, elements and withElem
Names == {Str("el"), Str("e2"), Num(0)}

\* modifier arguments
NestedArray == Arr(1, <<Str("a"), Arr(2, <<Null, Str("c")>>)>>)
InvalidArray == Arr(3, <<Undef, Bool(FALSE), Str(""), NaN, Arr(4, <<>>)>>)
MixedMap == Map(5, <<<<"a", Bool(TRUE)>>, <<"d", Num(0)>>, <<"e", Arr(6, <<>>)>>,
                     <<"f", Map(7, <<>>)>>, <<"g", Undef>>>>)
FalsyMap == Map(8, <<<<"falsy", Bool(FALSE)>>, <<"nully", Null>>, <<"empty", Str("")>>>>)
SingleMap == Map(9, <<<<"a", Num(1)>>, <<"b", Null>>>>)
Mods == {Str("a"), Num(0), Null, NestedArray, SingleMap}
AllMods == Mods \cup {Str("0"), Str(""), Undef, Bool(FALSE), NaN,
                      InvalidArray, MixedMap, FalsyMap}

\* items given to concat
Items == {Str("x"), Ref(1), Null, Arr(1, <<Str("y"), Str("x")>>)}

\* values of the property a validator checks
PropValues ==
    {Undef, Null, Str(""), Str("string"), Num(123), NaN, Bool(TRUE), Bool(FALSE),
     Arr(1, <<Str("a"), Str("r")>>), Map(9, <<<<"a", Num(1)>>>>),
     List(<<Str("foo"), Str("bar")>>), Ref(1)}
Validators == {"bem", "className", "element", "modifier"}

\* items of a list that is rendered
AnyItems == {Str("a"), Num(0), Num(1), Ref(1), Null, Undef, Bool(FALSE), Str(""), NaN}

\* items of a list and items given to its concat
ListItems == {Str("a"), Str("b"), Str("c")}
IncomingItems == {Str("a"), Str("c"), Null, Arr(1, <<Str("a"), Str("d")>>)}

CustomOptions == [elementSeparator |-> Str("~"), modifierSeparator |-> Str("~~")]
SetupOptions ==
    {[elementSeparator |-> Undef, modifierSeparator |-> Undef],
     CustomOptions,
     [elementSeparator |-> Str("_"), modifierSeparator |-> Undef]}

----------------------------------------------------------------------------
(* The program: a client that makes constructors, constructs instances and *)
(* calls their methods.                                                    *)

NoCall == [op |-> "none", recv |-> 0, name |-> Null, args |-> <<>>, ret |-> Null]

\* the client holds one instance and has not called a method of it yet
Ready == Len(heap) = 1 /\ call.op \in {"none", "new", "setup"}

Returned(op, this, name, args, r) ==
    /\ heap' = r.h
    /\ call' = [op |-> op, recv |-> this, name |-> name, args |-> args, ret |-> r.ret]
    /\ UNCHANGED ctors

\* export const BEM = setup()
Init ==
    /\ ctors = <<setup([elementSeparator |-> Undef, modifierSeparator |-> Undef])>>
    /\ heap = <<>>
    /\ call = NoCall

\* the separators kept in one place that every constructor reads
SetupUpTo_shared(optionses, max) ==
    /\ Len(ctors) < max
    /\ \E options \in optionses :
        /\ ctors' = [i \in 1..(Len(ctors) + 1) |-> setup(options)]
        /\ call' = [op |-> "setup", recv |-> 0, name |-> Null, args |-> <<options>>,
                    ret |-> Num(Len(ctors) + 1)]
        /\ UNCHANGED heap

\* const Custom = setup(options), while fewer than max constructors exist
SetupUpTo(optionses, max) ==
    /\ Len(ctors) < max
    /\ \E options \in optionses :
        /\ ctors' = Append(ctors, setup(options))
        /\ call' = [op |-> "setup", recv |-> 0, name |-> Null, args |-> <<options>>,
                    ret |-> Num(Len(ctors) + 1)]
        /\ UNCHANGED heap

Setup(optionses) == SetupUpTo(optionses, MaxCtors)

\* new ctors[cls](b, e, m) beside the instances that exist
NewRoot(parts, mparts) ==
    /\ Len(heap) < MaxRoots
    /\ call.op \in {"none", "new", "setup"}
    /\ \E cls \in 1..Len(ctors), b \in Blocks, e \in parts, m \in mparts :
          Returned("new", 0, Null, <<b, e, m>>,
                    [h |-> Append(heap, Construct(cls, b, e, m)), ret |-> Ref(Len(heap) + 1)])

\* heap[this].element(name, ...args) on any of the instances constructed
ElementOfAny(names, mods) ==
    /\ Len(heap) \in 1..MaxRoots
    /\ call.op \in {"new", "setup"}
    /\ \E this \in 1..Len(heap), name \in names, args \in SeqsUpTo(mods, 1) :
         \E r \in {element(heap, this, name, args)} : Returned("element", this, name, args, r)

\* new ctors[cls](b, e, m)
New(parts, mparts) ==
    /\ heap = <<>>
    /\ \E cls \in 1..Len(ctors), b \in Blocks, e \in parts, m \in mparts :
          Returned("new", 0, Null, <<b, e, m>>,
                    [h |-> <<Construct(cls, b, e, m)>>, ret |-> Ref(1)])

\* the client drops every reference but one, and the rest is collected
Release ==
    /\ ~Ready
    /\ \E i \in 1..Len(heap) : heap' = <<heap[i]>>
    /\ call' = NoCall
    /\ UNCHANGED ctors

Element(names, mods) ==
    /\ Ready
    /\ \E this \in 1..Len(heap), name \in names, args \in SeqsUpTo(mods, MaxArgs) :
         \E r \in {element(heap, this, name, args)} : Returned("element", this, name, args, r)

Modifier(mods) ==
    /\ Ready
    /\ \E this \in 1..Len(heap), args \in SeqsUpTo(mods, MaxArgs) :
         \E r \in {modifier(heap, this, args)} : Returned("modifier", this, Null, args, r)

Elements ==
    /\ Ready
    /\ \E this \in 1..Len(heap), args \in SeqsUpTo(Names, MaxArgs) :
         \E r \in {elements(heap, this, args)} : Returned("elements", this, Null, args, r)

WithElem ==
    /\ Ready
    /\ \E this \in 1..Len(heap), args \in SeqsUpTo(Names, MaxArgs) :
         \E r \in {withElem(heap, this, args)} : Returned("withElem", this, Null, args, r)

WithMod(mods) ==
    /\ Ready
    /\ \E this \in 1..Len(heap), args \in SeqsUpTo(mods, MaxArgs) :
         \E r \in {withMod(heap, this, args)} : Returned("withMod", this, Null, args, r)

Concat ==
    /\ Ready
    /\ \E this \in 1..Len(heap), args \in SeqsUpTo(Items, MaxArgs) :
         \E r \in {concat(heap, this, args)} : Returned("concat", this, Null, args, r)

\* String(heap[this])
ToStringCall ==
    \E this \in 1..Len(heap) :
        /\ call.op # "toString"
        /\ Returned("toString", this, Null, <<>>,
                    [h |-> heap, ret |-> Str(toString(heap[this], heap, ctors))])

\* BEMList.from(items), the items taken from pool; an instance among them
\* is one that exists
From(pool) ==
    /\ Len(heap) <= 1
    /\ call.op \in {"none", "new"}
    /\ \E items \in SeqsUpTo({v \in pool : v.t = "bem" => v.id <= Len(heap)}, MaxItems) :
          Returned("BEMList.from", 0, Null, <<Arr(0, items)>>,
                    [h |-> Append(heap, [items |-> items]), ret |-> ListRef(Len(heap) + 1)])

\* heap[this].concat(...args) on a list
ListConcat ==
    /\ Len(heap) = 1
    /\ call.op = "BEMList.from"
    /\ \E this \in 1..Len(heap), args \in SeqsUpTo(IncomingItems, MaxItems) :
         \E r \in {BEMList_concat(heap, this, args)} :
            Returned("BEMList.concat", this, Null, args, r)

\* ctors[via].propTypes[validator](props, 'prop', 'TestComponent'), or its
\* isRequired variant; props.prop is value
PropTypeCall ==
    /\ call.op # "propTypes"
    /\ \E via \in 1..Len(ctors), validator \in Validators, isRequired \in BOOLEAN,
          value \in {v \in PropValues : v.t = "bem" => v.id <= Len(heap)} :
         Returned("propTypes", via, Str(validator), <<value, Bool(isRequired)>>,
                  [h |-> heap,
                   ret |-> propType(isRequired, validator, value, "prop", "TestComponent", heap)])

\* String(list) of a list
ListToString ==
    /\ call.op = "BEMList.from"
    /\ \E this \in {call.ret.id} :
         Returned("BEMList.toString", this, Null, <<>>,
                  [h |-> heap, ret |-> Str(BEMList_toString(heap[this].items, heap, ctors))])

Next ==
    \/ Setup(SetupOptions)
    \/ New(Parts, Parts)
    \/ Release
    \/ Element(Names, Mods)
    \/ Modifier(Mods)
    \/ Elements
    \/ WithElem
    \/ WithMod(Mods)
    \/ Concat

Spec == Init /\ [][Next]_vars

\* one call with any input on an instance just constructed
NextCall ==
    \/ Setup({CustomOptions})
    \/ New({Null, Str("el")}, {Null, Str("m")})
    \/ Element({Str("el"), Num(0), Str("")}, AllMods)
    \/ Modifier(AllMods)
    \/ WithMod(AllMods)

SpecCall == Init /\ [][NextCall]_vars

\* constructing and rendering
NextRender ==
    \/ Setup(SetupOptions)
    \/ New(AllParts, AllParts)
    \/ ToStringCall

SpecRender == Init /\ [][NextRender]_vars

\* constructors made one after the other, and instances of several of them
NextSetup ==
    \/ SetupUpTo(SetupOptions, MaxSetups)
    \/ NewRoot({Null, Str("el")}, {Null, Str("m")})
    \/ ElementOfAny({Str("e2")}, {Str("a")})

SpecSetup == Init /\ [][NextSetup]_vars

\* the validators applied to values of every kind
NextProps ==
    \/ Setup({CustomOptions})
    \/ New({Null, Str("el")}, {Null, Str("m")})
    \/ PropTypeCall

SpecProps == Init /\ [][NextProps]_vars

\* every call with any input
NextAny ==
    \/ New(AllParts, {Null, Str("m"), Bool(FALSE)})
    \/ Element({Str("el"), Num(0), Undef}, AllMods)
    \/ Modifier(AllMods)
    \/ Elements
    \/ WithElem
    \/ WithMod(AllMods)
    \/ Concat
    \/ ToStringCall

SpecAny == Init /\ [][NextAny]_vars

\* a list and one call of its concat
NextList ==
    \/ From(ListItems)
    \/ ListConcat

SpecList == Init /\ [][NextList]_vars

\* a list of any items and its rendering
NextListRender ==
    \/ New({Null, Str("el")}, {Null, Str("m")})
    \/ From(AnyItems)
    \/ ListToString

SpecListRender == Init /\ [][NextListRender]_vars

----------------------------------------------------------------------------
(* What the specification says of a part, written out value by value *)

\* the parts the specification calls absent
Absent == {Null, Undef, Bool(FALSE), NaN, Str("")}

\* the text of a literal part
PartText(v) ==
    CASE v.t = "str" -> v.s
      [] v = Num(0) -> "0"
      [] v = Num(1) -> "1"

\* block, then separator and part for each part that is not absent
Rendering(b, e, m, es, ms) ==
    PartText(b) \o (IF e \in Absent THEN "" ELSE es \o PartText(e))
                \o (IF m \in Absent THEN "" ELSE ms \o PartText(m))

DerivationOps == {"element", "modifier", "elements", "withElem", "withMod", "concat"}

----------------------------------------------------------------------------
(* C1: toString() of a ClassName built from a block, an element and a      *)
(* modifier is the block, followed by the element separator and the        *)
(* element only if the element is 0 or truthy, followed by the modifier    *)
(* separator and the modifier only if the modifier is 0 or truthy; a       *)
(* ClassName built from a block alone renders as that block.               *)
C1_Rendering ==
    /\ [](call.op = "toString" =>
            LET this == heap[call.recv]
            IN call.ret = Str(Rendering(this.b, this.e, this.m,
                                        ctors[this.cls].es, ctors[this.cls].ms)))
    /\ [][(call.op = "new" /\ call'.op = "toString") =>
            call'.ret = Str(Rendering(call.args[1], call.args[2], call.args[3],
                                      ctors[heap[1].cls].es, ctors[heap[1].cls].ms))]_vars

\* 'block~0', rendered by an instance of a constructor with other separators
C1_Witness ==
    /\ call.op = "toString"
    /\ heap[call.recv].e = Num(0)
    /\ heap[call.recv].m = Bool(FALSE)
    /\ call.ret = Str("block~0")

(* C2: a derivation call (element, modifier, elements, withElem, withMod,  *)
(* concat; elem and mod are the same functions) leaves the block, element, *)
(* modifier and separators of every instance that existed before it, the   *)
(* receiver included, unchanged, and with them its toString() output.      *)
C2_ReceiverUnchanged ==
    [][call'.op \in DerivationOps =>
         /\ Len(heap') >= Len(heap)
         /\ \A i \in 1..Len(heap) :
              /\ heap'[i] = heap[i]
              /\ ctors'[heap'[i].cls] = ctors[heap[i].cls]
              /\ toString(heap'[i], heap', ctors') = toString(heap[i], heap, ctors)]_vars

\* element('e2', ...) was called on an instance with element 'el', which it kept
C2_Witness ==
    /\ call.op = "element"
    /\ call.name = Str("e2")
    /\ Len(call.args) > 0
    /\ heap[call.recv].e = Str("el")
    /\ Len(heap) > 2

(* C3: every instance derived, through any chain of element, modifier,     *)
(* elements, withElem and withMod calls, from an instance of a constructor *)
(* made by setup is an instance of that constructor and renders with that  *)
(* constructor's separators.                                               *)
C3_SameConstructor ==
    [][heap # <<>> =>
         \A i \in 1..Len(heap') :
            /\ heap'[i].cls = heap[1].cls
            /\ toString(heap'[i], heap', ctors')
                 = Rendering(heap'[i].b, heap'[i].e, heap'[i].m,
                             ctors[heap[1].cls].es, ctors[heap[1].cls].ms)]_vars

\* withMod on an instance that was itself derived from a '~', '~~' instance
C3_Witness ==
    /\ call.op = "withMod"
    /\ heap[1].cls = 2
    /\ heap[1].e = Str("e2")
    /\ ctors[2] = [es |-> "~", ms |-> "~~"]
    /\ ToStr(call.ret, heap, ctors) = "block~e2 block~e2~~a block~e2~~c"

(* C4: modifier(...inputs) returns the receiver itself, and makes no       *)
(* instance, when every input is null, false, undefined, '', NaN, an array *)
(* of such values or of such arrays, or a condition map whose values are   *)
(* all falsy; so also when there is no input.                              *)
RECURSIVE NothingValid(_)
NothingValid(v) ==
    \/ v \in Absent
    \/ v.t = "arr" /\ \A i \in 1..Len(v.items) : NothingValid(v.items[i])
    \/ v.t = "map" /\ \A i \in 1..Len(v.entries) :
                         v.entries[i][2] \in Absent \cup {Num(0)}

C4_ModifierIdentity ==
    (call.op = "modifier" /\ \A i \in 1..Len(call.args) : NothingValid(call.args[i]))
        => call.ret = Ref(call.recv) /\ Len(heap) = 1

\* modifier(falsy map, array of invalid values) on an instance with a modifier
C4_Witness ==
    /\ call.op = "modifier"
    /\ call.args = <<FalsyMap, InvalidArray>>
    /\ heap[call.recv].m = Str("m")
    /\ call.ret = Ref(call.recv)

----------------------------------------------------------------------------
(* Modifier normalization as the specification describes it (4.2): the     *)
(* modifier names an input contributes, in order.                          *)

Falsy == Absent \cup {Num(0)}

RECURSIVE TruthyKeys(_)
TruthyKeys(entries) ==
    IF entries = <<>> THEN <<>>
    ELSE (IF Head(entries)[2] \in Falsy THEN <<>> ELSE <<Head(entries)[1]>>)
            \o TruthyKeys(Tail(entries))

RECURSIVE Normalized(_)
RECURSIVE NormalizedAll(_)
Normalized(v) ==
    IF v \in Absent THEN <<>>
    ELSE IF v.t \in {"str", "num"} THEN <<PartText(v)>>
    ELSE IF v.t = "arr" THEN NormalizedAll(v.items)
    ELSE TruthyKeys(v.entries)

NormalizedAll(inputs) ==
    IF inputs = <<>> THEN <<>>
    ELSE Normalized(Head(inputs)) \o NormalizedAll(Tail(inputs))

RECURSIVE FirstOccurrences(_)
FirstOccurrences(names) ==
    IF names = <<>> THEN <<>>
    ELSE LET front == FirstOccurrences(SubSeq(names, 1, Len(names) - 1))
             last == names[Len(names)]
         IN IF \E i \in 1..Len(front) : front[i] = last THEN front
            ELSE Append(front, last)

\* the distinct modifiers the arguments of the last call name
CallModifiers == FirstOccurrences(NormalizedAll(call.args))

\* the instance this with its modifier replaced by the modifier named name
Modified(this, name) == [this EXCEPT !.m = Str(name)]

\* the modifiers of the instances the last call returned; none for the receiver
ReturnedModifiers ==
    IF call.ret = Ref(call.recv) THEN <<>>
    ELSE IF call.ret.t = "bem" THEN <<heap[call.ret.id].m>>
    ELSE [i \in 1..Len(call.ret.items) |-> heap[call.ret.items[i].id].m]

(* C5: modifier(...inputs) returns a single new ClassName, not a list and  *)
(* not the receiver, with the new modifier in place of the receiver's,     *)
(* whenever the inputs name exactly one distinct modifier, also when they  *)
(* name it more than once; a list is returned only for two or more.        *)
C5_SingleModifier ==
    call.op = "modifier" =>
        /\ Len(CallModifiers) = 1 =>
             /\ call.ret.t = "bem"
             /\ call.ret # Ref(call.recv)
             /\ heap[call.ret.id] = Modified(heap[call.recv], CallModifiers[1])
        /\ call.ret.t = "list" => Len(CallModifiers) >= 2

(* C6: when the inputs of modifier(...inputs) name two or more distinct    *)
(* modifiers, the result is a list of one new instance per distinct        *)
(* modifier, in order of first occurrence, each with the receiver's block, *)
(* element and constructor.                                                *)
C6_ModifierList ==
    (call.op = "modifier" /\ Len(CallModifiers) >= 2) =>
        /\ call.ret.t = "list"
        /\ Len(call.ret.items) = Len(CallModifiers)
        /\ \A i \in 1..Len(call.ret.items) :
              /\ call.ret.items[i] = Ref(call.recv + i)
              /\ heap[call.recv + i] = Modified(heap[call.recv], CallModifiers[i])

\* modifier(['a', [null, 'c']], 'a') on block__el: block__el--a block__el--c
C6_Witness ==
    /\ call.op = "modifier"
    /\ call.args = <<NestedArray, Str("a")>>
    /\ ToStr(call.ret, heap, ctors) = "block__el--a block__el--c"

(* C7: a condition map given as a modifier argument contributes exactly    *)
(* the keys whose value is truthy, in the map's order; a key whose value   *)
(* is an empty array or an empty object is included.                       *)
C7_ConditionMap ==
    (call.op = "modifier" /\ Len(call.args) = 1 /\ call.args[1].t = "map") =>
        ReturnedModifiers
            = [i \in 1..Len(TruthyKeys(call.args[1].entries)) |->
                    Str(TruthyKeys(call.args[1].entries)[i])]

\* {a: true, d: 0, e: [], f: {}, g: undefined} gives a, e and f
C7_Witness ==
    /\ call.op = "modifier"
    /\ call.args = <<MixedMap>>
    /\ ReturnedModifiers = <<Str("a"), Str("e"), Str("f")>>

C9_ElementKeepsModifier ==
    (call.op = "element" /\ call.args = <<>>) =>
        /\ heap[call.ret.id].m = heap[call.recv].m
        /\ ToStr(call.ret, heap, ctors)
             = Rendering(heap[call.recv].b, call.name, heap[call.recv].m,
                         ctors[heap[call.recv].cls].es, ctors[heap[call.recv].cls].ms)

(* C10: element(name, ...mods) with at least one modifier argument returns *)
(* a list equal, in length and in each position's rendering, to            *)
(* element(name).withMod(...mods); its first item renders as block,        *)
(* element separator, name without a modifier, and it is the only item     *)
(* when none of the modifier arguments is valid.                           *)
C10_ElementWithMod ==
    (call.op = "element" /\ Len(call.args) > 0) =>
        LET before == SubSeq(heap, 1, 1)
            single == element(before, call.recv, call.name, <<>>)
            list == withMod(single.h, single.ret.id, call.args)
        IN /\ call.ret.t = "list"
           /\ list.ret.t = "list"
           /\ Len(call.ret.items) = Len(list.ret.items)
           /\ \A i \in 1..Len(call.ret.items) :
                 ToStr(call.ret.items[i], heap, ctors)
                    = ToStr(list.ret.items[i], list.h, ctors)
           /\ ToStr(call.ret.items[1], heap, ctors)
                 = Rendering(heap[call.recv].b, call.name, Null,
                             ctors[heap[call.recv].cls].es, "")
           /\ (\A i \in 1..Len(call.args) : NothingValid(call.args[i]))
                 => Len(call.ret.items) = 1

\* element(0, falsy map, array of invalid values) on block~el~~m: only block~0
C10_Witness ==
    /\ call.op = "element"
    /\ call.name = Num(0)
    /\ call.args = <<FalsyMap, InvalidArray>>
    /\ heap[call.recv].m = Str("m")
    /\ ToStr(call.ret, heap, ctors) = "block~0"

----------------------------------------------------------------------------
\* the instance derived from the receiver of the last call for element name
ElementOf(name) ==
    [cls |-> heap[call.recv].cls, b |-> heap[call.recv].b, e |-> name, m |-> Null]

(* C11: elements(n1, ..., nk) returns a list of exactly k items, none of   *)
(* them the receiver; item i is a ClassName, not a list, with the          *)
(* receiver's block, the element n_i and no modifier, in input order and   *)
(* for every position, the first included: what element(n_i) alone         *)
(* returns.                                                                *)
C11_Elements ==
    call.op = "elements" =>
        /\ call.ret.t = "list"
        /\ Len(call.ret.items) = Len(call.args)
        /\ \A i \in 1..Len(call.args) :
              /\ call.ret.items[i].t = "bem"
              /\ call.ret.items[i] # Ref(call.recv)
              /\ heap[call.ret.items[i].id] = ElementOf(call.args[i])
              /\ \E alone \in {element(SubSeq(heap, 1, call.recv), call.recv,
                                       call.args[i], <<>>)} :
                    heap[call.ret.items[i].id] = alone.h[alone.ret.id]

\* elements('el', 0) on block__0--el
C11_Witness ==
    /\ call.op = "elements"
    /\ call.args = <<Str("el"), Num(0)>>
    /\ heap[call.recv] = [cls |-> 1, b |-> Str("block"), e |-> Num(0), m |-> Str("el")]
    /\ ToStr(call.ret, heap, ctors) = "block__el block__0"

(* C12: the first item of the list returned by withElem, withMod and       *)
(* concat on a ClassName is the receiver itself, the identical instance,   *)
(* for every argument list, the empty one included.                        *)
C12_FirstIsReceiver ==
    call.op \in {"withElem", "withMod", "concat"} =>
        /\ call.ret.t = "list"
        /\ Len(call.ret.items) >= 1
        /\ call.ret.items[1] = Ref(call.recv)

\* withMod() without arguments returned the list of the receiver alone
C12_Witness ==
    /\ call.op = "withMod"
    /\ call.args = <<>>
    /\ call.ret = List(<<Ref(call.recv)>>)

(* C13: withElem(n1, ..., nk) returns a list of exactly k + 1 items whose  *)
(* item at position i + 1 is the ClassName for element n_i, for any names, *)
(* repeated ones included: the de-duplication in concat removes no element *)
(* class.                                                                  *)
C13_WithElem ==
    call.op = "withElem" =>
        /\ call.ret.t = "list"
        /\ Len(call.ret.items) = Len(call.args) + 1
        /\ \A i \in 1..Len(call.args) :
              /\ call.ret.items[i + 1].t = "bem"
              /\ heap[call.ret.items[i + 1].id] = ElementOf(call.args[i])

\* withElem('el', 'el') on block__el: three items
C13_Witness ==
    /\ call.op = "withElem"
    /\ call.args = <<Str("el"), Str("el")>>
    /\ heap[call.recv] = [cls |-> 1, b |-> Str("block"), e |-> Str("el"), m |-> Null]
    /\ Len(call.ret.items) = 3
    /\ ToStr(call.ret, heap, ctors) = "block__el block__el block__el"

(* C14: for every receiver, one that has a modifier included, withMod      *)
(* applied to arguments that yield no valid modifier (a condition map      *)
(* whose values are all falsy, null, ...) returns a list of one item, the  *)
(* receiver: the receiver that modifier() returns for such an argument is  *)
(* never appended.                                                         *)
C14_WithModNoValid ==
    (call.op = "withMod" /\ \A i \in 1..Len(call.args) : NothingValid(call.args[i]))
        => call.ret = List(<<Ref(call.recv)>>)

\* the rendering of the receiver of the last call with the modifier m
\* (for a call of element: of the element derived from the receiver)
Class(m) ==
    Rendering(heap[call.recv].b,
              IF call.op = "element" THEN call.name ELSE heap[call.recv].e,
              m,
              ctors[heap[call.recv].cls].es, ctors[heap[call.recv].cls].ms)

(* C15: the numeral 0 is kept as a modifier by withMod: on a receiver      *)
(* without modifier withMod(0) returns a list of two items that renders    *)
(* 'block block--0', element(name, 0) renders 'block__name                 *)
(* block__name--0', and whenever 0 is among the arguments the class for    *)
(* modifier 0 is in the list.                                              *)
C15_ZeroModifier ==
    /\ (call.op = "withMod" /\ call.args = <<Num(0)>> /\ heap[call.recv].m = Null) =>
          /\ Len(call.ret.items) = 2
          /\ ToStr(call.ret, heap, ctors) = Class(Null) \o " " \o Class(Num(0))
    /\ (call.op = "element" /\ call.args = <<Num(0)>>) =>
          /\ Len(call.ret.items) = 2
          /\ ToStr(call.ret, heap, ctors) = Class(Null) \o " " \o Class(Num(0))
    /\ (/\ call.op \in {"withMod", "element"}
        /\ \E i \in 1..Len(call.args) : call.args[i] = Num(0)) =>
          \E j \in 2..Len(call.ret.items) :
              ToStr(call.ret.items[j], heap, ctors) = Class(Num(0))

\* withMod(0) on block: 'block block--0'
C15_Witness ==
    /\ call.op = "withMod"
    /\ call.args = <<Num(0)>>
    /\ heap[call.recv] = [cls |-> 1, b |-> Str("block"), e |-> Null, m |-> Null]
    /\ Len(call.ret.items) = 2
    /\ ToStr(call.ret, heap, ctors) = "block block--0"

----------------------------------------------------------------------------
RECURSIVE Spliced(_)
\* the items with every array or list among them replaced by its items
Spliced(items) ==
    IF items = <<>> THEN <<>>
    ELSE (IF Head(items).t \in {"arr", "list"} THEN Head(items).items
          ELSE <<Head(items)>>) \o Spliced(Tail(items))

\* the modifiers of the instances the last call appended to the first item of
\* the list it returned, the receiver itself left out
AppendedModifiers ==
    LET appended == Spliced(Tail(call.ret.items))
        derived == Filter(appended, {i \in 1..Len(appended) :
                                        appended[i] # Ref(call.recv)})
    IN [i \in 1..Len(derived) |-> heap[derived[i].id].m]

RECURSIVE PerArgument(_)
\* the modifiers each argument names, each once per argument
PerArgument(args) ==
    IF args = <<>> THEN <<>>
    ELSE FirstOccurrences(Normalized(Head(args))) \o PerArgument(Tail(args))

\* the modifiers the arguments of the last call name, an argument given twice
\* counted once
ArgumentModifiers == PerArgument(FirstOccurrences(call.args))

C17_WithModRendering ==
    call.op = "withMod" =>
        ToStr(call.ret, heap, ctors)
            = Join(<<Class(heap[call.recv].m)>>
                     \o [i \in 1..Len(ArgumentModifiers) |->
                            Class(Str(ArgumentModifiers[i]))], " ")

(* C18: concat(...items) on a ClassName flattens array arguments the way   *)
(* Array.concat does: the items of an array (or list) argument are put     *)
(* into the result as separate items, so that no item of the result is an  *)
(* array or a list.                                                        *)
C18_ConcatFlattens ==
    call.op = "concat" =>
        /\ \A k \in 1..Len(call.ret.items) : call.ret.items[k].t \notin {"arr", "list"}
        /\ \A i \in 1..Len(call.args) :
              call.args[i].t \in {"arr", "list"} =>
                 \A j \in 1..Len(call.args[i].items) :
                    \E k \in 2..Len(call.ret.items) :
                        call.ret.items[k] = call.args[i].items[j]

(* C19: concat(...items) on a ClassName appends the items without          *)
(* duplicates: no value occurs twice among the appended items, taken       *)
(* across the flattened argument list, so that a value given both directly *)
(* and inside an array argument is appended once.                          *)
C19_ConcatDistinct ==
    call.op = "concat" =>
        FirstOccurrences(Spliced(Tail(call.ret.items))) = Spliced(Tail(call.ret.items))

(* C20: BEMList.concat(...items) returns a new list: the receiver's items  *)
(* unchanged and in order, followed by the incoming items with the         *)
(* duplicates among the incoming items removed, first occurrence kept (an  *)
(* incoming array is appended item by item, as Array.concat does); an      *)
(* incoming item equal to an item of the receiver is still appended, and   *)
(* the receiver is not modified.                                           *)
C20_ListConcat ==
    [][call'.op = "BEMList.concat" =>
         /\ call'.ret.t = "listref"
         /\ call'.ret # ListRef(call'.recv)
         /\ call'.ret.id \notin 1..Len(heap)
         /\ heap'[call'.recv] = heap[call'.recv]
         /\ heap'[call'.ret.id].items
               = heap[call'.recv].items \o Spliced(FirstOccurrences(call'.args))]_vars

\* ['a', 'b'].concat('c', 'a', 'a') renders 'a b c a', the receiver still 'a b'
C20_Witness ==
    /\ call.op = "BEMList.concat"
    /\ call.args = <<Str("c"), Str("a"), Str("a")>>
    /\ BEMList_toString(heap[call.recv].items, heap, ctors) = "a b"
    /\ BEMList_toString(heap[call.ret.id].items, heap, ctors) = "a b c a"

----------------------------------------------------------------------------
\* the items that are 0 or truthy
ValidItems(items) ==
    Filter(items, {i \in 1..Len(items) : items[i] \notin Absent})

\* the rendering of a valid item: a literal's text, an instance's class
ItemText(v) ==
    IF v.t = "bem"
    THEN Rendering(heap[v.id].b, heap[v.id].e, heap[v.id].m,
                   ctors[heap[v.id].cls].es, ctors[heap[v.id].cls].ms)
    ELSE PartText(v)

RECURSIVE Spaced(_)
\* the texts with one space between each two
Spaced(texts) ==
    IF texts = <<>> THEN ""
    ELSE IF Len(texts) = 1 THEN texts[1]
    ELSE Spaced(SubSeq(texts, 1, Len(texts) - 1)) \o " " \o texts[Len(texts)]

(* C21: toString() of a list is the renderings of its valid items (0 or    *)
(* truthy), in list order, joined by exactly one space; invalid items      *)
(* (null, undefined, false, '', NaN) contribute nothing and no separator,  *)
(* and an empty list renders as the empty string.                          *)
C21_ListRendering ==
    call.op = "BEMList.toString" =>
        /\ call.ret = Str(Spaced([i \in 1..Len(ValidItems(heap[call.recv].items)) |->
                                    ItemText(ValidItems(heap[call.recv].items)[i])]))
        /\ heap[call.recv].items = <<>> => call.ret = Str("")

\* [null, 0, block__el--m] renders '0 block__el--m'
C21_Witness ==
    /\ call.op = "BEMList.toString"
    /\ heap[call.recv].items = <<Null, Num(0), Ref(1)>>
    /\ call.ret = Str("0 block__el--m")

(* C22: constructors made by separate calls of setup are independent:      *)
(* making a constructor with other separators, and constructing or         *)
(* deriving instances from it, changes no constructor made before, the     *)
(* default one included, and the rendering of none of their instances; an  *)
(* option left out of a call takes its default ('__' for the element       *)
(* separator, '--' for the modifier separator) whatever the calls before.  *)
C22_Independent ==
    [][/\ \A c \in 1..Len(ctors) : Len(ctors') >= c /\ ctors'[c] = ctors[c]
       /\ \A i \in 1..Len(heap) :
             /\ Len(heap') >= i
             /\ toString(heap'[i], heap', ctors') = toString(heap[i], heap, ctors)
       /\ Len(ctors') > Len(ctors) =>
             ctors'[Len(ctors')]
                = [es |-> IF call'.args[1].elementSeparator = Undef THEN "__"
                          ELSE call'.args[1].elementSeparator.s,
                   ms |-> IF call'.args[1].modifierSeparator = Undef THEN "--"
                          ELSE call'.args[1].modifierSeparator.s]]_vars

\* setup({elementSeparator: '_'}) after setup('~', '~~'), with an instance of
\* the default constructor and two of the '~' constructor alive
C22_Witness ==
    /\ call.op = "setup"
    /\ ctors = <<[es |-> "__", ms |-> "--"], [es |-> "~", ms |-> "~~"],
                 [es |-> "_", ms |-> "--"]>>
    /\ Len(heap) = 3
    /\ toString(heap[1], heap, ctors) = "block__el--m"
    /\ toString(heap[2], heap, ctors) = "block~el~~m"
    /\ toString(heap[3], heap, ctors) = "block~e2"

----------------------------------------------------------------------------
\* the value the last validator call checked, and whether it was required
PropValue == call.args[1]
PropRequired == call.args[2].b

\* the last call was of the validator of that name
Validated(validator) == call.op = "propTypes" /\ call.name = Str(validator)

\* a validator result is nothing (undefined) or an Error
IsError(result) == result.t = "error"

IsClassName(v) == v.t = "bem"
IsClassNameList(v) == v.t \in {"list", "listref"}
IsString(v) == v.t = "str"
IsNumber(v) == v.t \in {"num", "nan"}

(* C24: the bem validator returns nothing exactly when the value is a      *)
(* ClassName or a ClassNameList instance, and an Error for every other     *)
(* defined value: strings, numbers, booleans, plain arrays and null.       *)
C24_BemValidator ==
    (Validated("bem") /\ PropValue # Undef) =>
        (call.ret = Undef <=> (IsClassName(PropValue) \/ IsClassNameList(PropValue)))

(* C25: the className validator returns nothing exactly when the value is  *)
(* a string (the empty one included), a number, a ClassName instance or a  *)
(* ClassNameList instance, and an Error for booleans, plain arrays and     *)
(* null.                                                                   *)
C25_ClassNameValidator ==
    (Validated("className") /\ PropValue # Undef) =>
        (call.ret = Undef <=> \/ IsString(PropValue) \/ IsNumber(PropValue)
                              \/ IsClassName(PropValue) \/ IsClassNameList(PropValue))

C30_AnyConstructor ==
    ((Validated("bem") \/ Validated("className")) /\ IsClassName(PropValue))
        => call.ret = Undef

(* C27: no constructor, derivation or rendering call raises an error: for  *)
(* every block, element and modifier value and every shape of modifier     *)
(* input (valid or invalid literal, null, undefined, false, NaN, nested    *)
(* arrays, condition maps, no argument), element, modifier, elements,      *)
(* withElem, withMod, concat and toString return a value: an instance or a *)
(* list from a derivation, a string from toString.                         *)
C27_NoError ==
    /\ call.ret # TypeError
    /\ call.op \in DerivationOps \cup {"new"} => call.ret.t \in {"bem", "list"}
    /\ call.op = "toString" => call.ret.t = "str"
    /\ \A i \in 1..Len(heap) :
          heap[i].b # TypeError /\ heap[i].e # TypeError /\ heap[i].m # TypeError

\* withMod(undefined, [undefined, false, '', NaN, []]) returned the receiver alone
C27_Witness ==
    /\ call.op = "withMod"
    /\ call.args = <<Undef, InvalidArray>>
    /\ heap[call.recv].e = NaN
    /\ call.ret = List(<<Ref(call.recv)>>)

----------------------------------------------------------------------------
\* what createModifiers returned, as a sequence: none for null, one for a string
AsSequence(mods) ==
    IF mods = Null THEN <<>>
    ELSE IF mods.t = "arr" THEN mods.items
    ELSE <<mods>>

RECURSIVE Flattened(_)
\* the items with every array among them replaced, at any depth, by its items
Flattened(items) ==
    IF items = <<>> THEN <<>>
    ELSE (IF Head(items).t = "arr" THEN Flattened(Head(items).items)
          ELSE <<Head(items)>>) \o Flattened(Tail(items))

RECURSIVE EachNormalized(_)
\* what createModifiers returns for each item, one after the other
EachNormalized(items) ==
    IF items = <<>> THEN <<>>
    ELSE AsSequence(createModifiers(Head(items))) \o EachNormalized(Tail(items))

(* C28: modifier normalization of an array input is the in-order           *)
(* concatenation of the normalization of each of its elements, at any      *)
(* nesting depth: invalid elements contribute nothing, literals            *)
(* themselves, nested arrays and condition maps their own sequences; so    *)
(* the modifiers derived from a nested input are those derived from its    *)
(* flattened form, and no null or invalid entry reaches the sequence of    *)
(* modifiers.                                                              *)
C28_ArrayNormalization ==
    call.op = "modifier" =>
        \E mods \in {AsSequence(createModifiers(Arr(0, call.args)))} :
            /\ mods = EachNormalized(call.args)
            /\ mods = AsSequence(createModifiers(Arr(0, Flattened(call.args))))
            /\ mods = [i \in 1..Len(NormalizedAll(call.args)) |->
                          Str(NormalizedAll(call.args)[i])]
            /\ \A i \in 1..Len(mods) : mods[i].t = "str" /\ mods[i] \notin Absent
            /\ ReturnedModifiers = FirstOccurrences(mods)

\* modifier(['a', [null, 'c']], [undefined, false, '', NaN, []]) gives a and c
C28_Witness ==
    /\ call.op = "modifier"
    /\ call.args = <<NestedArray, InvalidArray>>
    /\ ReturnedModifiers = <<Str("a"), Str("c")>>

(* C29: every item of the list returned by withMod(...inputs) is a         *)
(* ClassName, never a nested list, so the list length is 1 plus the number *)
(* of distinct valid modifiers and each position holds one class, also     *)
(* when a single argument is an array or a condition map that names        *)
(* several modifiers.                                                      *)
C29_WithModFlat ==
    call.op = "withMod" =>
        /\ \A i \in 1..Len(call.ret.items) : call.ret.items[i].t = "bem"
        /\ Len(call.ret.items) = 1 + Len(CallModifiers)

====
